---- MODULE Spec2Model ----
(***************************************************************************)
(* aptpip: resolve the transitive dependencies of a Python package,        *)
(* classify every node as "install with apt" or "install with pip", then   *)
(* run the two bulk installs (src/aptpip.py).                              *)
(*                                                                         *)
(* A Python str is modelled as a sequence of one-character strings, so     *)
(* that lower(), replace(), strip(), `in` and the regular expressions are  *)
(* computed character by character as the interpreter computes them.       *)
(***************************************************************************)
EXTENDS Integers, Sequences, FiniteSets, Bags, TLC

(***************************************************************************)
(* Python values                                                           *)
(***************************************************************************)
\* None where a str is expected: no str equals it (its one element is not a
\* character).
None == <<"None">>

UpperChars ==
    <<"A","B","C","D","E","F","G","H","I","J","K","L","M",
      "N","O","P","Q","R","S","T","U","V","W","X","Y","Z">>

LowerChars ==
    <<"a","b","c","d","e","f","g","h","i","j","k","l","m",
      "n","o","p","q","r","s","t","u","v","w","x","y","z">>

Digits == {"0","1","2","3","4","5","6","7","8","9"}

Range(s) == {s[i] : i \in 1..Len(s)}

\* the character class [a-zA-Z0-9-_] of both name regular expressions
NameChars == Range(UpperChars) \cup Range(LowerChars) \cup Digits \cup {"-", "_"}

\* \s / str.strip() whitespace
Whitespace == {" ", "\t", "\n", "\r"}

LowerChar(c) ==
    IF \E i \in 1..26 : UpperChars[i] = c
    THEN LowerChars[CHOOSE i \in 1..26 : UpperChars[i] = c]
    ELSE c

\* str.lower()
Lower(s) == [i \in 1..Len(s) |-> LowerChar(s[i])]

\* t in s
Contains(s, t) ==
    \E i \in 0..(Len(s) - Len(t)) : SubSeq(s, i + 1, i + Len(t)) = t

\* s.startswith(t)
StartsWith(s, t) == Len(s) >= Len(t) /\ SubSeq(s, 1, Len(t)) = t

\* s.replace(old, ""): every non-overlapping occurrence, left to right
RECURSIVE Remove(_, _)
Remove(s, old) ==
    IF s = <<>> THEN <<>>
    ELSE IF StartsWith(s, old) THEN Remove(SubSeq(s, Len(old) + 1, Len(s)), old)
    ELSE <<Head(s)>> \o Remove(Tail(s), old)

\* s.strip()
RECURSIVE LStrip(_)
LStrip(s) ==
    IF s # <<>> /\ Head(s) \in Whitespace THEN LStrip(Tail(s)) ELSE s

RECURSIVE RStrip(_)
RStrip(s) ==
    IF s # <<>> /\ s[Len(s)] \in Whitespace THEN RStrip(SubSeq(s, 1, Len(s) - 1)) ELSE s

Strip(s) == RStrip(LStrip(s))

\* length of the longest prefix of s made of NameChars: the greedy group
\* ([a-zA-Z0-9-_]+) of re.match
NameLen(s) ==
    IF \A i \in 1..Len(s) : s[i] \in NameChars THEN Len(s)
    ELSE (CHOOSE i \in 1..Len(s) :
              /\ s[i] \notin NameChars
              /\ \A j \in 1..(i - 1) : s[j] \in NameChars) - 1

(***************************************************************************)
(* get_dependencies: the dependency-spec regular expression of line 69,    *)
(* applied with re.match: a name (one or more NameChars), then optionally  *)
(* a bracketed extras part (shortest), then optionally ";" and anything.   *)
(***************************************************************************)
\* re.match(...) is not None
DepMatches(dep) == NameLen(dep) > 0

\* match.group(1)
DepPackage(dep) == SubSeq(dep, 1, NameLen(dep))

\* match.group(2): the text between "[" right after the name and the first
\* "]" ("." does not cross a newline); None when the group does not match
DepExtras(dep) ==
    LET n == NameLen(dep)
        closes == {k \in (n + 2)..Len(dep) :
                      /\ dep[k] = "]"
                      /\ \A j \in (n + 2)..(k - 1) : dep[j] # "\n"}
    IN  IF n < Len(dep) /\ dep[n + 1] = "[" /\ closes # {}
        THEN SubSeq(dep, n + 2, (CHOOSE k \in closes : \A m \in closes : k <= m) - 1)
        ELSE None

\* the loop of lines 67-73: one (package, extras) pair per matching entry,
\* in order.  The field raw is not part of the Python tuple: it remembers
\* the spec string the pair was parsed from.
RECURSIVE cleaned_deps(_)
cleaned_deps(deps) ==
    IF deps = <<>> THEN <<>>
    ELSE IF DepMatches(Head(deps))
         THEN <<[package |-> DepPackage(Head(deps)),
                 extras  |-> DepExtras(Head(deps)),
                 raw     |-> Head(deps)]>> \o cleaned_deps(Tail(deps))
         ELSE cleaned_deps(Tail(deps))

(***************************************************************************)
(* is_dev_dependency                                                       *)
(***************************************************************************)
dev_terms ==
    { <<"t","e","s","t">>, <<"d","e","v">>, <<"d","e","v","e","l">>,
      <<"d","o","c","s">> }

is_dev_dependency(dependency_string) ==
    \E term \in dev_terms : Contains(Lower(dependency_string), term)

(***************************************************************************)
(* run_command and apt_package_exists                                      *)
(***************************************************************************)
\* What subprocess.run does with a command: it raises FileNotFoundError or
\* returns a CompletedProcess (returncode, stdout as its sequence of lines).
FileNotFound == [kind |-> "FileNotFoundError", returncode |-> 0, stdout |-> <<>>]

Completed(rc, out) == [kind |-> "completed", returncode |-> rc, stdout |-> out]

\* run_command returned None
NoResult == [kind |-> "None", returncode |-> 0, stdout |-> <<>>]

\* no command has been run
NoProc == [kind |-> "", returncode |-> 0, stdout |-> <<>>]

run_command(proc, check_error, expected_return_code) ==
    IF proc.kind = "FileNotFoundError" THEN NoResult
    ELSE IF check_error /\ proc.returncode # expected_return_code THEN NoResult
    ELSE proc

PyPrefix == <<"p","y","t","h","o","n","3","-">>

PackageKey == <<"P","a","c","k","a","g","e",":"," ">>

\* the command line of line 98: "python3-" + package_name.lower()
AptCandidate(package_name_with_extras) == PyPrefix \o Lower(package_name_with_extras)

\* a line that ^Package: (\S+)$ matches (re.MULTILINE)
PackageLine(line) ==
    /\ StartsWith(line, PackageKey)
    /\ Len(line) > Len(PackageKey)
    /\ \A i \in (Len(PackageKey) + 1)..Len(line) : line[i] \notin Whitespace

\* lines 99-107, given what the apt-cache process did: the name on the first
\* Package: line, or None
apt_package_exists(proc) ==
    LET result == run_command(proc, FALSE, 0)
        hits == {i \in 1..Len(result.stdout) : PackageLine(result.stdout[i])}
    IN  IF result # NoResult /\ result.returncode = 0 /\ hits # {}
        THEN LET first == CHOOSE i \in hits : \A j \in hits : i <= j
             IN  SubSeq(result.stdout[first], Len(PackageKey) + 1, Len(result.stdout[first]))
        ELSE None

(***************************************************************************)
(* get_dependencies                                                        *)
(***************************************************************************)
\* What requests.get(pypi_url).json() does: it raises RequestException
\* (network error), raises JSONDecodeError (the body is not JSON), or returns
\* the decoded body.  status is the HTTP status of the response; body is
\*   "null"   JSON null            "list"  a non-empty JSON array
\*   "empty"  the JSON object {}   "object" a non-empty JSON object;
\* info tells whether the object has the key 'info' ("absent"), has it with
\* value null ("null") or with an object value ("object"); requires_dist
\* tells the same of info['requires_dist'] ("absent", "null", "list") and
\* dist is that list of dependency-spec strings.
Response(exc, status, body, info, requires_dist, dist) ==
    [exc |-> exc, status |-> status, body |-> body, info |-> info,
     requires_dist |-> requires_dist, dist |-> dist]

NoResp == Response("", 0, "", "", "", <<>>)

\* dependencies is None / dependencies is the list l
DepsNone == [isNone |-> TRUE, list |-> <<>>]

Deps(l) == [isNone |-> FALSE, list |-> l]

\* the loop of lines 67-73 leaving at the first entry that does not match
RECURSIVE cleaned_deps_until_unmatched(_)
cleaned_deps_until_unmatched(deps) ==
    IF deps = <<>> \/ ~DepMatches(Head(deps)) THEN <<>>
    ELSE <<[package |-> DepPackage(Head(deps)),
            extras  |-> DepExtras(Head(deps)),
            raw     |-> Head(deps)]>> \o cleaned_deps_until_unmatched(Tail(deps))

\* get_dependencies that gives up the list at the first entry that does not
\* match
get_dependencies_until_unmatched(resp) ==
    IF resp.exc # "" THEN DepsNone
    ELSE IF resp.body \in {"null", "empty"} THEN DepsNone
    ELSE IF resp.body # "object" THEN DepsNone
    ELSE IF resp.info = "absent" THEN Deps(<<>>)
    ELSE IF resp.info = "null" THEN DepsNone
    ELSE IF resp.requires_dist # "list" THEN Deps(<<>>)
    ELSE Deps(cleaned_deps_until_unmatched(resp.dist))

get_dependencies(resp) ==
    IF resp.exc # "" THEN DepsNone                          \* lines 50-55
    ELSE IF resp.body \in {"null", "empty"} THEN DepsNone     \* lines 57-59
    ELSE IF resp.body # "object" THEN DepsNone                \* line 61 raises, 77-79
    ELSE IF resp.info = "absent" THEN Deps(<<>>)              \* {}.get(...) is None, 63-65
    ELSE IF resp.info = "null" THEN DepsNone                  \* None.get raises, 77-79
    ELSE IF resp.requires_dist # "list" THEN Deps(<<>>)       \* lines 63-65
    ELSE Deps(cleaned_deps(resp.dist))                        \* lines 67-75

(***************************************************************************)
(* The inputs the model ranges over                                        *)
(***************************************************************************)
\* longest dependency list a registry payload carries
MaxDeps == 2

\* most lines in a requirements file
MaxLines == 2

SeqsUpTo(S, n) == UNION {[1..k -> S] : k \in 0..n}

alpha == <<"a","l","p","h","a">>

beta == <<"b","e","t","a">>

gamma == <<"g","a","m","m","a">>

omega == <<"o","m","e","g","a">>

delta == <<"d","e","l","t","a">>

pytest == <<"p","y","t","e","s","t">>

\* "gamma[extra]; extra == 'test'"
gamma_test_spec == <<"g","a","m","m","a","[","e","x","t","r","a","]",";"," ","e","x","t","r","a"," ","=","="," ","'","t","e","s","t","'">>

\* "Beta>=1.0"
Beta_spec == <<"B","e","t","a",">","=","1",".","0">>

\* "python3-beta"
python3_beta == PyPrefix \o beta

\* "python3-omega"
python3_omega == PyPrefix \o omega

\* ">=2.0": no name at the start
malformed_spec == <<">","=","2",".","0">>

\* the dependency-spec strings the registry lists for a package
SpecsOf(package_name) ==
    IF package_name = alpha THEN {beta, gamma_test_spec}
    ELSE IF package_name = beta THEN {alpha, malformed_spec}
    ELSE IF package_name = gamma THEN {pytest, Beta_spec}
    ELSE IF package_name = python3_beta THEN {beta, alpha}
    ELSE IF package_name = delta THEN {python3_omega, omega}
    ELSE {}

\* the package names given on the command line
RootNames == {alpha, omega, python3_beta, delta}

\* the lines a requirements file is made of:
\* "alpha", "  omega>=2 ", "# deps", "", "==1"
ReqLines ==
    { alpha, <<" "," ","o","m","e","g","a",">","=","2"," ">>, <<"#"," ","d","e","p","s">>, <<>>, <<"=","=","1">> }

\* the canonical name apt-cache show reports for a candidate: the candidate
\* itself, and for python3-omega also "libomega-dev"
libomega_dev == <<"l","i","b","o","m","e","g","a","-","d","e","v">>

CanonicalNames(candidate) ==
    {candidate} \cup (IF candidate = PyPrefix \o omega THEN {libomega_dev} ELSE {})

\* what the apt-cache show process may do for a candidate
ProbeOutcomes(candidate) ==
    { FileNotFound, Completed(100, <<>>), Completed(0, <<>>) }
    \cup { Completed(0, <<PackageKey \o c, <<"V","e","r","s","i","o","n",":"," ","1">>>>) : c \in CanonicalNames(candidate) }

\* what the registry may answer for a package
Responses(package_name) ==
    { Response("RequestException", 0, "", "", "", <<>>),
      Response("JSONDecodeError", 404, "", "", "", <<>>),
      Response("JSONDecodeError", 200, "", "", "", <<>>),
      Response("", 200, "null", "", "", <<>>),
      Response("", 200, "empty", "", "", <<>>),
      Response("", 200, "list", "", "", <<>>),
      Response("", 404, "object", "absent", "", <<>>),
      Response("", 200, "object", "null", "", <<>>),
      Response("", 200, "object", "object", "absent", <<>>),
      Response("", 200, "object", "object", "null", <<>>) }
    \cup { Response("", 200, "object", "object", "list", l) :
               l \in SeqsUpTo(SpecsOf(package_name), MaxDeps) }

\* what the apt install / pip3 install process may do
InstallOutcomes == { FileNotFound, Completed(0, <<>>), Completed(1, <<>>) }

(***************************************************************************)
(* State                                                                   *)
(***************************************************************************)
VARIABLES
    args,                      \* the parsed command line (line 177)
    file_exists,               \* the requirements file is on disk
    pc,                        \* where the main program is
    exit_status,               \* -1 while running, then the exit status
    lines_read,                \* how many lines `for line in f` has read
    processed_packages,        \* line 191
    apt_packages_to_install,   \* line 189
    pip_packages_to_install,   \* line 190
    stack,                     \* the calls of install_dependencies_recursive
    apt_install_packages,      \* line 201
    real_apt_package,          \* line 203: what the probe of each entry returned
    probes,                    \* history: the names probed by the walk (bag)
    queries,                   \* history: the names queried at the registry (bag)
    reprobes,                  \* history: the candidates probed by line 203 (bag)
    oracle_hit,                \* history: <<name, real name>> the walk's probes found
    listed,                    \* history: <<name, dependency>> get_dependencies returned
    invoked                    \* history: the install commands run, in order

vars ==
    <<args, file_exists, pc, exit_status, lines_read, processed_packages,
      apt_packages_to_install, pip_packages_to_install, stack,
      apt_install_packages, real_apt_package, probes, queries, reprobes,
      oracle_hit, listed, invoked>>

walk_vars == <<processed_packages, apt_packages_to_install, pip_packages_to_install>>

main_vars ==
    <<args, file_exists, pc, exit_status, lines_read, apt_install_packages,
      real_apt_package, invoked>>

history_vars == <<probes, queries, reprobes, oracle_hit, listed>>

\* A call of install_dependencies_recursive: its package_name, its position,
\* its locals result (of run_command, inside apt_package_exists), data (inside
\* get_dependencies) and the part of dependencies the loop of line 139 has
\* not iterated yet (path, used for the printed line only, is left out).
\* The other fields are history: via is the text the call
\* was made for, lookup_failed tells that get_dependencies returned None in a
\* call made (directly or not) by this one, owed holds the dependencies
\* this call had still to recurse into when that happened, and unmatched
\* tells that an entry of the registry's list did not match at line 70.
Frame(package_name, via) ==
    [name |-> package_name, pc |-> "line120", result |-> NoProc, data |-> NoResp,
     dependencies |-> <<>>, via |-> via, lookup_failed |-> FALSE, owed |-> {},
     unmatched |-> FALSE]

Top == stack[Len(stack)]

Pop == SubSeq(stack, 1, Len(stack) - 1)

SetTop(frame) == [stack EXCEPT ![Len(stack)] = frame]

At(label) == pc = "walk" /\ stack # <<>> /\ Top.pc = label

Init ==
    /\ args \in [package_name : RootNames \cup {None}, requirements_file : BOOLEAN,
                 dev : BOOLEAN]
    /\ (args.package_name = None) = args.requirements_file      \* line 171
    /\ file_exists \in BOOLEAN
    /\ ~args.requirements_file => ~file_exists
    /\ pc = "line193"
    /\ exit_status = -1
    /\ lines_read = 0
    /\ processed_packages = {}
    /\ apt_packages_to_install = {}
    /\ pip_packages_to_install = {}
    /\ stack = <<>>
    /\ apt_install_packages = EmptyBag
    /\ real_apt_package = <<>>
    /\ probes = EmptyBag
    /\ queries = EmptyBag
    /\ reprobes = EmptyBag
    /\ oracle_hit = {}
    /\ listed = {}
    /\ invoked = <<>>

\* Revisit without the test of line 120: the name is processed again
Revisit_reprocess ==
    /\ At("line120")
    /\ Top.name \in processed_packages
    /\ stack' = SetTop([Top EXCEPT !.pc = "line99"])
    /\ UNCHANGED <<walk_vars, main_vars, history_vars>>

\* Revisit that classifies the name again before it returns
Revisit_reclassify ==
    /\ At("line120")
    /\ Top.name \in processed_packages
    /\ pip_packages_to_install' = pip_packages_to_install \cup {<<Top.name, None>>}
    /\ stack' = Pop
    /\ UNCHANGED <<processed_packages, apt_packages_to_install, main_vars,
                   history_vars>>

(***************************************************************************)
(* install_dependencies_recursive, lines 109-144                           *)
(***************************************************************************)
\* lines 120-121: the name is already in processed
Revisit ==
    /\ At("line120")
    /\ Top.name \in processed_packages
    /\ stack' = Pop
    /\ UNCHANGED <<walk_vars, main_vars, history_vars>>

\* lines 120-127: a new name
Visit ==
    /\ At("line120")
    /\ Top.name \notin processed_packages
    /\ processed_packages' = processed_packages \cup {Top.name}
    /\ stack' = SetTop([Top EXCEPT !.pc = "line99"])
    /\ UNCHANGED <<apt_packages_to_install, pip_packages_to_install, main_vars,
                   history_vars>>

\* lines 95-99: apt-cache show python3-<lowercased name> is run
Probe ==
    /\ At("line99")
    /\ \E proc \in ProbeOutcomes(AptCandidate(Top.name)) :
           stack' = SetTop([Top EXCEPT !.pc = "line100", !.result = proc])
    /\ probes' = probes (+) SetToBag({Top.name})
    /\ UNCHANGED <<walk_vars, main_vars, queries, reprobes, oracle_hit, listed>>

\* AptFound without the return of line 131: the registry is queried next
AptFound_no_return ==
    /\ At("line100")
    /\ apt_package_exists(Top.result) \notin {None, <<>>}
    /\ apt_packages_to_install' = apt_packages_to_install \cup {PyPrefix \o Top.name}
    /\ oracle_hit' = oracle_hit \cup {<<Top.name, apt_package_exists(Top.result)>>}
    /\ stack' = SetTop([Top EXCEPT !.pc = "line49", !.result = NoProc])
    /\ UNCHANGED <<processed_packages, pip_packages_to_install, main_vars, probes,
                   queries, reprobes, listed>>

\* AptFound that installs the package at once, inside the walk
AptFound_install_now ==
    /\ At("line100")
    /\ apt_package_exists(Top.result) \notin {None, <<>>}
    /\ apt_packages_to_install' = apt_packages_to_install \cup {PyPrefix \o Top.name}
    /\ oracle_hit' = oracle_hit \cup {<<Top.name, apt_package_exists(Top.result)>>}
    /\ invoked' = Append(invoked, [tool |-> "apt",
                                   packages |-> SetToBag({apt_package_exists(Top.result)}),
                                   proc |-> Completed(0, <<>>)])
    /\ stack' = Pop
    /\ UNCHANGED <<processed_packages, pip_packages_to_install, args, file_exists,
                   pc, exit_status, lines_read, apt_install_packages,
                   real_apt_package, probes, queries, reprobes, listed>>

\* lines 100-106 and 129-131: a system package exists
AptFound ==
    /\ At("line100")
    /\ apt_package_exists(Top.result) \notin {None, <<>>}
    /\ apt_packages_to_install' = apt_packages_to_install \cup {PyPrefix \o Top.name}
    /\ oracle_hit' = oracle_hit \cup {<<Top.name, apt_package_exists(Top.result)>>}
    /\ stack' = Pop
    /\ UNCHANGED <<processed_packages, pip_packages_to_install, main_vars, probes,
                   queries, reprobes, listed>>

\* lines 100-107 and 129: no system package
AptAbsent ==
    /\ At("line100")
    /\ apt_package_exists(Top.result) \in {None, <<>>}
    /\ stack' = SetTop([Top EXCEPT !.pc = "line49", !.result = NoProc])
    /\ UNCHANGED <<walk_vars, main_vars, history_vars>>

\* lines 43-55: the registry is queried
Fetch ==
    /\ At("line49")
    /\ \E resp \in Responses(Top.name) :
           stack' = SetTop([Top EXCEPT !.pc = "line57", !.data = resp])
    /\ queries' = queries (+) SetToBag({Top.name})
    /\ UNCHANGED <<walk_vars, main_vars, probes, reprobes, oracle_hit, listed>>

\* line 140: the dependency is recursed into
Wanted(dependency) == args.dev \/ ~is_dev_dependency(dependency)

\* the dependencies the loop of line 139 of a call will still recurse into
Pending(frame) ==
    {frame.dependencies[i].package : i \in
        {j \in 1..Len(frame.dependencies) : Wanted(frame.dependencies[j].package)}}

\* the callers of the top call, told of a failed lookup
Told ==
    [i \in 1..(Len(stack) - 1) |->
        [stack[i] EXCEPT !.lookup_failed = TRUE,
                         !.owed = IF i = Len(stack) - 1
                                  THEN stack[i].owed \cup Pending(stack[i])
                                  ELSE stack[i].owed]]

\* lines 57-82 and 133-137: get_dependencies returns None
LookupFailed ==
    /\ At("line57")
    /\ get_dependencies(Top.data).isNone
    /\ pip_packages_to_install' = pip_packages_to_install \cup {<<Top.name, None>>}
    /\ stack' = Told
    /\ UNCHANGED <<processed_packages, apt_packages_to_install, main_vars,
                   history_vars>>

\* lines 57-75 and 133-135: get_dependencies returns a list; its names are
\* remembered
LookupOk ==
    /\ At("line57")
    /\ ~get_dependencies(Top.data).isNone
    /\ stack' = SetTop([Top EXCEPT !.pc = "line139", !.data = NoResp,
                                   !.dependencies = get_dependencies(Top.data).list,
                                   !.unmatched = \E i \in 1..Len(Top.data.dist) :
                                                     ~DepMatches(Top.data.dist[i])])
    /\ listed' = listed \cup
           {<<Top.name, get_dependencies(Top.data).list[i].package>> :
                i \in 1..Len(get_dependencies(Top.data).list)}
    /\ UNCHANGED <<walk_vars, main_vars, probes, queries, reprobes, oracle_hit>>

\* LoopSkip without the test of line 140: any dependency may be passed over
LoopSkip_any ==
    /\ At("line139")
    /\ Top.dependencies # <<>>
    /\ stack' = SetTop([Top EXCEPT !.dependencies = Tail(Top.dependencies)])
    /\ UNCHANGED <<walk_vars, main_vars, history_vars>>

\* lines 139-140: the dependency is filtered out
LoopSkip ==
    /\ At("line139")
    /\ Top.dependencies # <<>>
    /\ ~Wanted(Head(Top.dependencies).package)
    /\ stack' = SetTop([Top EXCEPT !.dependencies = Tail(Top.dependencies)])
    /\ UNCHANGED <<walk_vars, main_vars, history_vars>>

\* lines 139-141: the recursive call
LoopRecurse ==
    /\ At("line139")
    /\ Top.dependencies # <<>>
    /\ Wanted(Head(Top.dependencies).package)
    /\ stack' = Append(SetTop([Top EXCEPT !.dependencies = Tail(Top.dependencies)]),
                       Frame(Head(Top.dependencies).package, Head(Top.dependencies).raw))
    /\ UNCHANGED <<walk_vars, main_vars, history_vars>>

\* Finish that keeps the extras parsed from the dependency spec the call was
\* made for
Finish_keep_extras ==
    /\ At("line139")
    /\ Top.dependencies = <<>>
    /\ pip_packages_to_install' =
           IF Top.name \notin apt_packages_to_install
           THEN pip_packages_to_install \cup {<<Top.name, DepExtras(Top.via)>>}
           ELSE pip_packages_to_install
    /\ stack' = Pop
    /\ UNCHANGED <<processed_packages, apt_packages_to_install, main_vars,
                   history_vars>>

\* lines 143-144: the loop is over
Finish ==
    /\ At("line139")
    /\ Top.dependencies = <<>>
    /\ pip_packages_to_install' =
           IF Top.name \notin apt_packages_to_install
           THEN pip_packages_to_install \cup {<<Top.name, None>>}
           ELSE pip_packages_to_install
    /\ stack' = Pop
    /\ UNCHANGED <<processed_packages, apt_packages_to_install, main_vars,
                   history_vars>>

(***************************************************************************)
(* install_from_requirements and the main program, lines 146-228           *)
(***************************************************************************)
\* line 196: a single package was named
StartPackage ==
    /\ pc = "line193"
    /\ ~args.requirements_file
    /\ stack' = <<Frame(args.package_name, args.package_name)>>
    /\ pc' = "walk"
    /\ UNCHANGED <<args, file_exists, exit_status, lines_read,
                   apt_install_packages, real_apt_package, invoked, walk_vars,
                   history_vars>>

\* lines 194 and 149: the requirements file is opened
OpenRequirements ==
    /\ pc = "line193"
    /\ args.requirements_file
    /\ file_exists
    /\ pc' = "walk"
    /\ UNCHANGED <<args, file_exists, exit_status, lines_read, stack,
                   apt_install_packages, real_apt_package, invoked, walk_vars,
                   history_vars>>

\* lines 160-163: FileNotFoundError
RequirementsMissing ==
    /\ pc = "line193"
    /\ args.requirements_file
    /\ ~file_exists
    /\ pc' = "exited"
    /\ exit_status' = 1
    /\ UNCHANGED <<args, file_exists, lines_read, stack, apt_install_packages,
                   real_apt_package, invoked, walk_vars, history_vars>>

\* the requirement regular expression of line 154 matches: a name first
ReqMatches(line) == NameLen(line) > 0

\* match.group(1) of line 156
ReqPackage(line) == SubSeq(line, 1, NameLen(line))

\* lines 150-159: one more line of the file (the file shows its lines as
\* they are read); the call of line 157 is made for a line that is neither
\* blank nor a comment and starts with a name
ReadLine ==
    /\ pc = "walk"
    /\ args.requirements_file
    /\ stack = <<>>
    /\ lines_read < MaxLines
    /\ lines_read' = lines_read + 1
    /\ \E text \in ReqLines :
         LET line == Strip(text)
         IN  IF line # <<>> /\ ~StartsWith(line, <<"#">>) /\ ReqMatches(line)
             THEN stack' = <<Frame(ReqPackage(line), text)>>
             ELSE stack' = stack
    /\ UNCHANGED <<args, file_exists, pc, exit_status, apt_install_packages,
                   real_apt_package, invoked, walk_vars, history_vars>>

\* lines 203-205 for one entry, given what its apt-cache process did: the
\* names appended to apt_install_packages
Appended(proc) ==
    IF apt_package_exists(proc) \notin {None, <<>>}
    THEN SetToBag({apt_package_exists(proc)})
    ELSE EmptyBag

RECURSIVE BagSum(_, _)
BagSum(S, bagOf) ==
    IF S = {} THEN EmptyBag
    ELSE LET x == CHOOSE y \in S : TRUE
         IN  bagOf[x] (+) BagSum(S \ {x}, bagOf)

\* the command line of line 203 for an entry of apt_packages
ReprobeCandidate(entry) == AptCandidate(Remove(entry, PyPrefix))

\* lines 198-205: the walk has returned (the single call, or the last line of
\* the file); every entry of apt_packages is probed again, and the names
\* found make the list apt_install_packages, kept as the bag of its elements
WalkDone ==
    /\ pc = "walk"
    /\ stack = <<>>
    /\ pc' = IF apt_packages_to_install # {} THEN "line206" ELSE "line212"
    /\ \E procs \in [apt_packages_to_install ->
                        UNION {ProbeOutcomes(ReprobeCandidate(e)) :
                                   e \in apt_packages_to_install}] :
         /\ \A e \in apt_packages_to_install :
                procs[e] \in ProbeOutcomes(ReprobeCandidate(e))
         /\ apt_install_packages' =
                BagSum(apt_packages_to_install,
                       [e \in apt_packages_to_install |-> Appended(procs[e])])
         /\ real_apt_package' =
                [e \in apt_packages_to_install |-> apt_package_exists(procs[e])]
    /\ reprobes' = BagSum(apt_packages_to_install,
                          [e \in apt_packages_to_install |->
                               SetToBag({ReprobeCandidate(e)})])
    /\ UNCHANGED <<args, file_exists, exit_status, lines_read, stack, invoked,
                   walk_vars, probes, queries, oracle_hit, listed>>

\* AptInstall without the exit of line 210: the program goes on to pip
AptInstall_no_exit ==
    /\ pc = "line206"
    /\ apt_install_packages # EmptyBag
    /\ \E proc \in InstallOutcomes :
           invoked' = Append(invoked, [tool |-> "apt", packages |-> apt_install_packages,
                                       proc |-> proc])
    /\ pc' = "line212"
    /\ UNCHANGED <<args, file_exists, exit_status, lines_read, stack,
                   apt_install_packages, real_apt_package, walk_vars, history_vars>>

\* lines 206-210: sudo apt install -y <packages>; the command run is
\* remembered with its arguments and with what its process did
AptInstall ==
    /\ pc = "line206"
    /\ apt_install_packages # EmptyBag
    /\ \E proc \in InstallOutcomes :
           /\ IF run_command(proc, TRUE, 0) = NoResult
              THEN pc' = "exited" /\ exit_status' = 1
              ELSE pc' = "line212" /\ exit_status' = exit_status
           /\ invoked' = Append(invoked, [tool |-> "apt", packages |-> apt_install_packages,
                                          proc |-> proc])
    /\ UNCHANGED <<args, file_exists, lines_read, stack, apt_install_packages,
                   real_apt_package, walk_vars, history_vars>>

\* line 206: no probe of line 203 found a package
AptNothing ==
    /\ pc = "line206"
    /\ apt_install_packages = EmptyBag
    /\ pc' = "line212"
    /\ UNCHANGED <<args, file_exists, exit_status, lines_read, stack,
                   apt_install_packages, real_apt_package, invoked, walk_vars,
                   history_vars>>

\* lines 215-217: name or name[extras]
InstallString(entry) ==
    IF entry[2] \notin {None, <<>>}
    THEN entry[1] \o <<"[">> \o entry[2] \o <<"]">>
    ELSE entry[1]

\* lines 213-218, the list kept as the bag of its elements
pip_install_packages ==
    BagSum(pip_packages_to_install,
           [e \in pip_packages_to_install |-> SetToBag({InstallString(e)})])

\* lines 212-222: sudo pip3 install --break-system-packages <packages>
PipInstall ==
    /\ pc = "line212"
    /\ pip_packages_to_install # {}
    /\ \E proc \in InstallOutcomes :
           /\ exit_status' = IF run_command(proc, TRUE, 0) = NoResult THEN 1 ELSE 0
           /\ invoked' = Append(invoked, [tool |-> "pip", packages |-> pip_install_packages,
                                          proc |-> proc])
    /\ pc' = "exited"
    /\ UNCHANGED <<args, file_exists, lines_read, stack, apt_install_packages,
                   real_apt_package, walk_vars, history_vars>>

\* line 212: nothing to install with pip; lines 224-228
PipNothing ==
    /\ pc = "line212"
    /\ pip_packages_to_install = {}
    /\ pc' = "exited"
    /\ exit_status' = 0
    /\ UNCHANGED <<args, file_exists, lines_read, stack, apt_install_packages,
                   real_apt_package, invoked, walk_vars, history_vars>>

Next ==
    \/ StartPackage
    \/ OpenRequirements
    \/ RequirementsMissing
    \/ ReadLine
    \/ Revisit
    \/ Visit
    \/ Probe
    \/ AptFound
    \/ AptAbsent
    \/ Fetch
    \/ LookupFailed
    \/ LookupOk
    \/ LoopSkip
    \/ LoopRecurse
    \/ Finish
    \/ WalkDone
    \/ AptInstall
    \/ AptNothing
    \/ PipInstall
    \/ PipNothing

Spec == Init /\ [][Next]_vars

\* the interpreter runs the program to its end: every step that can be taken
\* is taken
LiveSpec == Spec /\ WF_vars(Next)

(***************************************************************************)
(* Properties                                                              *)
(***************************************************************************)
\* the name was put into apt_packages (line 130) / into pip_packages
InApt(name, apt_packages) == PyPrefix \o name \in apt_packages

InPip(name, pip_packages) == \E entry \in pip_packages : entry[1] = name

Classified(name, apt_packages, pip_packages) ==
    InApt(name, apt_packages) \/ InPip(name, pip_packages)

\* every top-level call of install_dependencies_recursive has returned
Resolved == pc # "line193" /\ stack = <<>>

AtMostOnce ==
    /\ \A name \in BagToSet(probes) : CopiesIn(name, probes) <= 1
    /\ \A name \in BagToSet(queries) : CopiesIn(name, queries) <= 1

\* C1: every top-level call of install_dependencies_recursive returns,
\* whatever the graph, the oracle and the registry do, and the walk probes
\* each name at most once and queries the registry for it at most once.
C1_TerminatesVisitingOnce ==
    /\ []AtMostOnce
    /\ (stack # <<>>) ~> (stack = <<>>)

\* C1 witness: a cycle is met; the name called is the name of one of its own
\* callers.
C1_Witness ==
    /\ At("line120")
    /\ \E i \in 1..(Len(stack) - 1) : stack[i].name = Top.name
    /\ CopiesIn(Top.name, queries) = 1

\* C2: once resolution is complete, every processed name is in exactly one
\* of AptTarget and PipTarget.
C2_Partition ==
    Resolved =>
        \A name \in processed_packages :
            /\ Classified(name, apt_packages_to_install, pip_packages_to_install)
            /\ ~(InApt(name, apt_packages_to_install) /\ InPip(name, pip_packages_to_install))

\* C3: a name for which the oracle reported a system package is in
\* AptTarget, is never queried at the registry, and no call for it ever gets
\* past line 120, so its loop never calls a dependency.
C3_AptShortCircuit ==
    \A hit \in oracle_hit :
        /\ InApt(hit[1], apt_packages_to_install)
        /\ CopiesIn(hit[1], queries) = 0
        /\ \A i \in 1..Len(stack) : stack[i].name = hit[1] => stack[i].pc = "line120"

\* C3 witness: the oracle found a package for a dependency and the caller
\* goes on.
C3_Witness ==
    /\ At("line139")
    /\ \E hit \in oracle_hit : hit[1] # stack[1].name

\* C4: without --dev, no call is made for a dependency spec that contains
\* "test" (in any case) anywhere in its text.
C4_DevFiltered ==
    ~args.dev =>
        \A i \in 2..Len(stack) : ~Contains(Lower(stack[i].via), <<"t","e","s","t">>)

\* C5: the real name the oracle reported for a name is what AptTarget holds.
C5_CanonicalInAptTarget ==
    \A hit \in oracle_hit : hit[2] \in apt_packages_to_install

\* C6: when the lookup of a name fails, the name goes to PipTarget without
\* extras and its call ends there; the walk goes on: every caller of it is
\* classified when it returns, and every dependency its direct caller had
\* still to recurse into is processed by then and classified, unless it is
\* itself a caller that has not returned yet.
C6_LookupFailureIsLocal ==
    [][ /\ (At("line57") /\ get_dependencies(Top.data).isNone) =>
              /\ <<Top.name, None>> \in pip_packages_to_install'
              /\ Len(stack') = Len(stack) - 1
        /\ (At("line139") /\ Top.dependencies = <<>> /\ Top.lookup_failed) =>
              /\ Classified(Top.name, apt_packages_to_install', pip_packages_to_install')
              /\ \A name \in Top.owed :
                     /\ name \in processed_packages'
                     /\ \/ Classified(name, apt_packages_to_install',
                                      pip_packages_to_install')
                        \/ \E i \in 1..Len(stack') : stack'[i].name = name
      ]_vars

\* C7: a call for a name that is already processed changes nothing: no
\* probe, no query, the three sets as they were, and it returns.
C7_RevisitIsNoOp ==
    [][ (At("line120") /\ Top.name \in processed_packages) =>
            /\ UNCHANGED <<processed_packages, apt_packages_to_install,
                           pip_packages_to_install, probes, queries>>
            /\ stack' = Pop
      ]_vars

\* C7 witness: a later line of the requirements file names a package that an
\* earlier line had processed.
C7_Witness ==
    /\ At("line120")
    /\ Len(stack) = 1
    /\ lines_read = 2
    /\ Top.name \in processed_packages

\* the responses the registry client is to report as a failure
FailureResponse(resp) ==
    \/ resp.exc # ""                          \* network error, unparseable body
    \/ resp.status \notin 200..299            \* non-2xx
    \/ resp.body # "object"                   \* invalid payload
    \/ resp.info # "object"

\* the payload is valid and has no dependency field
NoDependencyField(resp) ==
    /\ ~FailureResponse(resp)
    /\ resp.requires_dist \in {"absent", "null"}

\* C8: get_dependencies returns the empty list for a payload without a
\* dependency field and None for a network error, a non-2xx response, an
\* invalid payload and an unparseable payload.
C8_FailureDistinguished ==
    At("line57") =>
        /\ NoDependencyField(Top.data) => get_dependencies(Top.data) = Deps(<<>>)
        /\ FailureResponse(Top.data) => get_dependencies(Top.data).isNone

\* the probe failed: command missing, non-zero exit, or no Package: line
OracleFailure(proc) ==
    \/ proc.kind = "FileNotFoundError"
    \/ proc.returncode # 0
    \/ \A i \in 1..Len(proc.stdout) : ~PackageLine(proc.stdout[i])

\* C9: after a failed probe the walk goes on to the registry lookup of the
\* same name, and the name is classified when its call returns.
C9_OracleFailureRecovered ==
    [][ /\ (At("line100") /\ OracleFailure(Top.result)) =>
              /\ pc' = "walk"
              /\ Len(stack') = Len(stack)
              /\ stack'[Len(stack)].name = Top.name
              /\ stack'[Len(stack)].pc = "line49"
        /\ ((At("line57") \/ At("line139")) /\ Len(stack') < Len(stack)) =>
              Classified(Top.name, apt_packages_to_install', pip_packages_to_install')
      ]_vars

\* C10: an install command is run only when every top-level call has
\* returned and the file has been read, and from the first install command
\* on nothing is probed, queried or processed.
C10_InstallAfterWalk ==
    [][ invoked' # <<>> =>
            /\ Resolved
            /\ pc \in {"line206", "line212"}
            /\ UNCHANGED <<probes, queries, reprobes, processed_packages>>
      ]_vars

\* C10 witness: both installs have run, after a walk that probed and queried
\* and entries that were probed again.
C10_Witness ==
    /\ Len(invoked) = 2
    /\ BagToSet(probes) # {}
    /\ BagToSet(queries) # {}
    /\ BagToSet(reprobes) # {}

\* what the oracle answered for a processed name during the walk: the real
\* name, or None
WalkAnswer(name) ==
    IF \E hit \in oracle_hit : hit[1] = name
    THEN (CHOOSE hit \in oracle_hit : hit[1] = name)[2]
    ELSE None

\* the oracle gave one answer per command line, in the walk and at line 203
DeterministicOracle ==
    /\ \A n, m \in processed_packages :
           AptCandidate(n) = AptCandidate(m) => WalkAnswer(n) = WalkAnswer(m)
    /\ \A e \in DOMAIN real_apt_package :
           /\ \A n \in processed_packages :
                  ReprobeCandidate(e) = AptCandidate(n) =>
                      real_apt_package[e] = WalkAnswer(n)
           /\ \A f \in DOMAIN real_apt_package :
                  ReprobeCandidate(e) = ReprobeCandidate(f) =>
                      real_apt_package[e] = real_apt_package[f]

\* C11: with an oracle that gives one answer per command line, once the apt
\* step is over an apt install command has been run, and the real name the
\* oracle reported during the walk for each name it found is an argument of
\* that command exactly once.
C11_AptInstallsEveryCanonicalName ==
    (Resolved /\ pc \in {"line212", "exited"} /\ DeterministicOracle) =>
        \A hit \in oracle_hit :
            \E i \in 1..Len(invoked) :
                /\ invoked[i].tool = "apt"
                /\ CopiesIn(hit[2], invoked[i].packages) = 1

\* the install command failed: command missing, or a non-zero exit
InstallFailed(proc) == proc.kind = "FileNotFoundError" \/ proc.returncode # 0

\* C12: with the requirements file missing nothing is resolved, no install
\* command is run and the program can only exit with status 1; an install
\* command that fails is the last one run (so no pip command follows a
\* failed apt command) and the program has exited with a non-zero status.
C12_FailuresExitNonZero ==
    /\ (args.requirements_file /\ ~file_exists) =>
           /\ invoked = <<>>
           /\ processed_packages = {}
           /\ pc = "line193" \/ (pc = "exited" /\ exit_status > 0)
    /\ \A i \in 1..Len(invoked) :
           InstallFailed(invoked[i].proc) =>
               /\ i = Len(invoked)
               /\ pc = "exited"
               /\ exit_status > 0

\* C12 witness: the apt command failed with names waiting for pip.
C12_Witness ==
    /\ Len(invoked) = 1
    /\ invoked[1].tool = "apt"
    /\ InstallFailed(invoked[1].proc)
    /\ pip_packages_to_install # {}
    /\ pc = "exited"

\* at most one name of the set S has each lower-cased form
OnePerCase(S) == \A n, m \in S : Lower(n) = Lower(m) => n = m

\* C13: of the names that differ in letter case only, at most one is
\* processed, at most one is probed and at most one is classified.
C13_CaseNormalizedIdentity ==
    /\ OnePerCase(processed_packages)
    /\ OnePerCase(BagToSet(probes))
    /\ OnePerCase(apt_packages_to_install
                  \cup {entry[1] : entry \in pip_packages_to_install})

\* the entries of a registry list that match at line 70
Matching(dist) == {i \in 1..Len(dist) : DepMatches(dist[i])}

\* the names get_dependencies returned for a name that the loop of line 139
\* recurses into
WantedOf(name) == {l[2] : l \in {e \in listed : e[1] = name /\ Wanted(e[2])}}

\* C14: get_dependencies returns one pair for every entry of the registry's
\* list that parses, in the order of the list, whatever entries around it
\* do not parse; and every name it returned that the dev filter keeps is
\* processed, or is being called, or is still to be iterated by the loop of
\* the call that received it.
C14_MalformedSkipped ==
    /\ (At("line57") /\ ~get_dependencies(Top.data).isNone) =>
           LET dist == Top.data.dist
               list == get_dependencies(Top.data).list
           IN  /\ Len(list) = Cardinality(Matching(dist))
               /\ \A i \in Matching(dist) :
                      LET k == Cardinality({j \in Matching(dist) : j <= i})
                      IN  /\ list[k].raw = dist[i]
                          /\ list[k].package = DepPackage(dist[i])
    /\ \A l \in listed :
           Wanted(l[2]) =>
               \/ l[2] \in processed_packages
               \/ At("line120") /\ Top.name = l[2]
               \/ \E i \in 1..Len(stack) :
                      /\ stack[i].name = l[1]
                      /\ stack[i].pc = "line139"
                      /\ \E k \in 1..Len(stack[i].dependencies) :
                             stack[i].dependencies[k].package = l[2]

\* C14 witness: the loop of a call whose list had an entry that does not
\* parse is over, and a name of that list was processed by this loop.
C14_Witness ==
    /\ At("line139")
    /\ Top.dependencies = <<>>
    /\ Top.unmatched
    /\ \E name \in WantedOf(Top.name) :
           /\ name \in processed_packages
           /\ \A i \in 1..Len(stack) : stack[i].name # name
           /\ CopiesIn(name, probes) = 1

\* an edge of the graph the walk follows: the oracle found no system
\* package for name, the registry lookup of name returned a list, and
\* dependency is a name of that list that the filter of line 140 keeps
Edge(name, dependency) ==
    /\ WalkAnswer(name) = None
    /\ <<name, dependency>> \in listed
    /\ Wanted(dependency)

\* the names reachable from the names of S along the edges
RECURSIVE Reachable(_)
Reachable(S) ==
    LET further == S \cup {l[2] : l \in {e \in listed : e[1] \in S /\ Edge(e[1], e[2])}}
    IN  IF further = S THEN S ELSE Reachable(further)

\* C15: when the call for the package named on the command line has
\* returned, the processed names are exactly the names reachable from it
\* along the edges.
C15_VisitedIsReachable ==
    (Resolved /\ ~args.requirements_file) =>
        processed_packages = Reachable({args.package_name})

\* C15 witness: a walk over three names or more that left a listed
\* dependency out.
C15_Witness ==
    /\ Resolved
    /\ ~args.requirements_file
    /\ Cardinality(processed_packages) >= 3
    /\ \E l \in listed : l[2] \notin processed_packages

(***************************************************************************)
(* The walk of a finished run done again, with the same oracle and the     *)
(* same registry but the dependency lists in another order                 *)
(***************************************************************************)
\* the names get_dependencies returned for a name in the run
ListOf(name) == {l[2] : l \in {e \in listed : e[1] = name}}

\* get_dependencies returned None for the name in the run: the name went to
\* pip_packages and left no list (a run in which it returned the empty list
\* at that point is taken as this one)
LookupNone(name) == ListOf(name) = {} /\ InPip(name, pip_packages_to_install)

\* the ways to list the names of S
Orderings(S) ==
    {order \in [1..Cardinality(S) -> S] :
         \A i, j \in 1..Cardinality(S) : order[i] = order[j] => i = j}

\* the ways to list the dependencies of every name of S
RECURSIVE ListOrders(_)
ListOrders(S) ==
    IF S = {} THEN {<<>>}
    ELSE LET name == CHOOSE n \in S : TRUE
         IN  {(name :> order) @@ rest :
                  order \in Orderings(ListOf(name)), rest \in ListOrders(S \ {name})}

\* lines 109-144 as a function of the three sets: the sets after the call
\* for package_name, with the registry listing the dependencies of each name
\* in the order lists gives
RECURSIVE install_dependencies_recursive(_, _, _)
RECURSIVE dependencies_loop(_, _, _)
install_dependencies_recursive(package_name, sets, lists) ==
    IF package_name \in sets.processed THEN sets                     \* 120
    ELSE LET added == [sets EXCEPT !.processed = @ \cup {package_name}]   \* 123
         IN  IF WalkAnswer(package_name) # None                      \* 129
             THEN [added EXCEPT !.apt_packages = @ \cup {PyPrefix \o package_name}]
             ELSE IF LookupNone(package_name)                        \* 135
             THEN [added EXCEPT !.pip_packages = @ \cup {<<package_name, None>>}]
             ELSE LET after == dependencies_loop(lists[package_name], added, lists)
                  IN  IF package_name \notin after.apt_packages     \* 143
                      THEN [after EXCEPT !.pip_packages = @ \cup {<<package_name, None>>}]
                      ELSE after

\* lines 139-141
dependencies_loop(dependencies, sets, lists) ==
    IF dependencies = <<>> THEN sets
    ELSE dependencies_loop(
             Tail(dependencies),
             IF Wanted(Head(dependencies))
             THEN install_dependencies_recursive(Head(dependencies), sets, lists)
             ELSE sets,
             lists)

\* the three sets of the run
RunSets ==
    [processed |-> processed_packages, apt_packages |-> apt_packages_to_install,
     pip_packages |-> pip_packages_to_install]

\* the three sets at line 189-191
NoSets == [processed |-> {}, apt_packages |-> {}, pip_packages |-> {}]

\* the oracle gave one answer per command line during the walk
FixedOracle ==
    \A n, m \in processed_packages :
        AptCandidate(n) = AptCandidate(m) => WalkAnswer(n) = WalkAnswer(m)

\* the call for the package named on the command line has just returned
RootReturned ==
    /\ pc = "walk"
    /\ stack = <<>>
    /\ ~args.requirements_file
    /\ args.package_name \in processed_packages

\* C16: when the call for the package named on the command line has
\* returned, the same walk with the same oracle and registry answers, the
\* dependency lists of the registry in any other order, ends with the same
\* apt_packages and pip_packages as the run did.
C16_OrderIndependent ==
    (RootReturned /\ FixedOracle) =>
        \A lists \in ListOrders(processed_packages) :
            LET again == install_dependencies_recursive(args.package_name, NoSets, lists)
            IN  /\ again.apt_packages = apt_packages_to_install
                /\ again.pip_packages = pip_packages_to_install

\* C17: every processed name that is neither in apt_packages nor in
\* pip_packages is the name of a call that has not returned; and for every
\* name in pip_packages, each dependency returned for it that the filter of
\* line 140 keeps is processed.
C17_UnclassifiedOnStack ==
    /\ \A name \in processed_packages :
           ~Classified(name, apt_packages_to_install, pip_packages_to_install) =>
               \E i \in 1..Len(stack) :
                   stack[i].name = name /\ stack[i].pc # "line120"
    /\ \A entry \in pip_packages_to_install :
           WantedOf(entry[1]) \subseteq processed_packages

\* C18: every entry of pip_packages has None as its extras, and every
\* argument of a pip install command is the bare name of an entry, with no
\* bracket in it.
C18_PipEntriesBare ==
    /\ \A entry \in pip_packages_to_install : entry[2] = None
    /\ \A i \in 1..Len(invoked) :
           invoked[i].tool = "pip" =>
               /\ BagToSet(invoked[i].packages) =
                      {entry[1] : entry \in pip_packages_to_install}
               /\ \A argument \in BagToSet(invoked[i].packages) :
                      "[" \notin Range(argument)

\* C18 witness: the pip command has been run with gamma, a name the walk
\* only gets from a dependency spec that names extras.
C18_Witness ==
    /\ \E l \in listed : l[2] = gamma
    /\ DepExtras(gamma_test_spec) # None
    /\ \E i \in 1..Len(invoked) :
           /\ invoked[i].tool = "pip"
           /\ CopiesIn(gamma, invoked[i].packages) = 1

====
